---- MODULE Spec2Model ----
(***************************************************************************)
(* Model of the profile chatbot's retrieval pipeline:                      *)
(*   - SimpleVectorStore (app/indexing/vector_store.py)                    *)
(*   - the index build script (app/indexing/build_index.py) with the CV    *)
(*     and LinkedIn loaders (app/ingestion)                                *)
(*   - the FastAPI serving boundary (app/api/main.py)                      *)
(* Strings the code inspects character by character are sequences of       *)
(* one-character strings; opaque texts are plain strings.                  *)
(***************************************************************************)
EXTENDS Integers, Sequences, FiniteSets, TLC

\* ------------------------------------------------------------------ bounds
MaxRecords == 3      \* add_documents is not offered once the store holds this many records
MaxBatch == 2        \* longest texts / embeddings argument of one add_documents call
MaxTopK == 4         \* top_k ranges over -MaxTopK .. MaxTopK

\* ------------------------------------------------------------------ state
VARIABLES
    chunks,      \* SimpleVectorStore.chunks: sequence of DocumentChunk records
    storeOp,     \* the last call made on the store, with its arguments and outcome
    buildEnv,    \* what the build script finds: the CV file, the export directory, installed libraries
    buildRun,    \* outcome of main(): the exception that ended it, or the knowledge base it built
    outDir,      \* the files of --output-dir
    ingestOp,    \* the last call of an ingestion function, with its arguments and result
    srvEnv,      \* what the API process finds: the vector store file, the OpenAI key, the embedding model
    srvPc,       \* position of on_startup
    vector_store, embedder, chatbot,   \* the module globals of app/api/main.py
    lastReq,     \* the last request handled, with its response and the calls it made
    inflight     \* the chat requests being handled: per request slot, its position, query and context

storeVars == <<chunks, storeOp>>
buildVars == <<buildEnv, buildRun, outDir, ingestOp>>
serveVars == <<srvEnv, srvPc, vector_store, embedder, chatbot, lastReq, inflight>>
vars == <<chunks, storeOp, buildEnv, buildRun, outDir, ingestOp,
          srvEnv, srvPc, vector_store, embedder, chatbot, lastReq, inflight>>

\* ------------------------------------------------------------- helpers
Min(a, b) == IF a <= b THEN a ELSE b
Max(a, b) == IF a >= b THEN a ELSE b

SeqsUpTo(S, n) == UNION {[1..m -> S] : m \in 0..n}

\* ------------------------------------------------------ SimpleVectorStore
StoreTexts == {"a", "b"}
\* embedding vectors (rows of the np.ndarray) and query vectors
Vecs == {<<1, 0>>, <<-1, 1>>, <<0, 1>>}
Queries == {<<1, 0>>, <<1, 1>>, <<0, 0>>}

DocumentChunk(id, text, embedding) == [id |-> id, text |-> text, embedding |-> embedding]

\* zip(texts, embeddings): pairs up to the shorter argument
Zip(texts, embeddings) ==
    [i \in 1..Min(Len(texts), Len(embeddings)) |-> <<texts[i], embeddings[i]>>]

\* the loop of add_documents; i is the 0-based enumerate index, and
\* len(self.chunks) is read again at every iteration
RECURSIVE AddLoop(_, _, _)
AddLoop(cs, zipped, i) ==
    IF i >= Len(zipped) THEN cs
    ELSE AddLoop(Append(cs, DocumentChunk(Len(cs) + i, zipped[i + 1][1], zipped[i + 1][2])),
                 zipped, i + 1)

add_documents(cs, texts, embeddings) == AddLoop(cs, Zip(texts, embeddings), 0)

\* a @ b
RECURSIVE DotFrom(_, _, _)
DotFrom(a, b, i) == IF i > Min(Len(a), Len(b)) THEN 0 ELSE a[i] * b[i] + DotFrom(a, b, i + 1)
Dot(a, b) == DotFrom(a, b, 1)

\* _cosine_similarity(a, b) = a@b / (norm(a) * norm(b) + 1e-10), kept exact:
\* the record [d, n] stands for the real number d / (sqrt(n) + 1e-10), with
\* d = a@b and n = |a|^2 * |b|^2 (integers).
_cosine_similarity(a, b) == [d |-> Dot(a, b), n |-> Dot(a, a) * Dot(b, b)]

\* order of two positive scores: d1/(sqrt(n1)+e) < d2/(sqrt(n2)+e). e is far
\* below the gap between two distinct values d/sqrt(n) of small integers, so
\* it decides the order only when d1*sqrt(n2) = d2*sqrt(n1).
PosLess(s1, s2) ==
    LET L == s1.d * s1.d * s2.n - s2.d * s2.d * s1.n
    IN  IF L # 0 THEN L < 0 ELSE s1.d < s2.d

Negate(s) == [d |-> 0 - s.d, n |-> s.n]

\* s1 < s2 as floats
ScoreLess(s1, s2) ==
    IF s1.d <= 0 /\ s2.d > 0 THEN TRUE
    ELSE IF s1.d < 0 /\ s2.d = 0 THEN TRUE
    ELSE IF s1.d > 0 /\ s2.d > 0 THEN PosLess(s1, s2)
    ELSE IF s1.d < 0 /\ s2.d < 0 THEN PosLess(Negate(s2), Negate(s1))
    ELSE FALSE

ScoreEq(s1, s2) == ~ScoreLess(s1, s2) /\ ~ScoreLess(s2, s1)

\* the (chunk, score) tuples search builds, one per stored chunk in store
\* order; pos is the chunk object's position in self.chunks (its identity)
ScorePairs(cs, query_embedding) ==
    [p \in 1..Len(cs) |->
        [chunk |-> cs[p], score |-> _cosine_similarity(query_embedding, cs[p].embedding), pos |-> p]]

\* list.sort(key=score, reverse=True): a stable sort, so an element stays
\* behind every earlier element whose score is greater or equal
InsertBreakingTies(sorted, x) ==
    LET front == {j \in 1..Len(sorted) : ~ScoreLess(x.score, sorted[j].score)}
        k == IF front = {} THEN Len(sorted) + 1 ELSE CHOOSE j \in front : \A m \in front : j <= m
    IN  SubSeq(sorted, 1, k - 1) \o <<x>> \o SubSeq(sorted, k, Len(sorted))

InsertDesc(sorted, x) ==
    LET front == {j \in 1..Len(sorted) : ScoreLess(sorted[j].score, x.score)}
        k == IF front = {} THEN Len(sorted) + 1 ELSE CHOOSE j \in front : \A m \in front : j <= m
    IN  SubSeq(sorted, 1, k - 1) \o <<x>> \o SubSeq(sorted, k, Len(sorted))

RECURSIVE SortFrom(_, _, _)
SortFrom(s, i, acc) == IF i > Len(s) THEN acc ELSE SortFrom(s, i + 1, InsertDesc(acc, s[i]))
SortDescStable(s) == SortFrom(s, 1, <<>>)

\* scores[:top_k]: a negative top_k counts from the end of the list
SliceTo(s, k) == SubSeq(s, 1, IF k >= 0 THEN Min(k, Len(s)) ELSE Max(Len(s) + k, 0))

\* search with the slice taken before the sort
search_slice_then_sort(cs, query_embedding, top_k) ==
    SortDescStable(SliceTo(ScorePairs(cs, query_embedding), top_k))

search(cs, query_embedding, top_k) ==
    SliceTo(SortDescStable(ScorePairs(cs, query_embedding)), top_k)

\* a @ b raises ValueError for two vectors of different lengths, so search
\* raises as soon as one stored embedding has not the query's length
SearchRaises(cs, query_embedding) ==
    \E p \in 1..Len(cs) : Len(cs[p].embedding) # Len(query_embedding)

\* the other components when only one is exercised
NoBuildEnv == [cv |-> <<>>, dir |-> <<>>, pdfplumber |-> FALSE, docx |-> FALSE, model_ok |-> FALSE]
NoBuildRun == [done |-> FALSE, raised |-> "none", texts |-> <<>>, embeddings |-> <<>>]
NoOutDir == [kb_file |-> <<>>, vs_file |-> <<>>]
\* no ingestion function was called yet
NoIngestOp ==
    [op |-> "none", raw_text |-> <<>>, sections |-> <<>>, max_chars |-> 0, min_chars |-> 0,
     split |-> <<>>, data |-> <<>>, result |-> <<>>]
BuildIdle ==
    /\ buildEnv = NoBuildEnv /\ buildRun = NoBuildRun /\ outDir = NoOutDir
    /\ ingestOp = NoIngestOp
NoSrvEnv == [vs_file |-> <<>>, openai_api_key |-> FALSE, model_ok |-> FALSE]
NoRequest ==
    [kind |-> "none", query |-> <<>>, status |-> 0, answer |-> <<>>, context |-> <<>>,
     calls |-> {}, generations |-> 0,
     llm |-> [embed_raised |-> FALSE, raised |-> FALSE, content |-> <<>>],
     had_vector_store |-> FALSE, had_embedder |-> FALSE, had_chatbot |-> FALSE]
\* request slots, and a slot handling no request
MaxInFlight == 2
Requests == 1..MaxInFlight
IdleSlot == [pc |-> "idle", query |-> <<>>, context |-> <<>>]
NoneInFlight == [r \in Requests |-> IdleSlot]
ServeIdle ==
    /\ inflight = NoneInFlight
    /\ srvEnv = NoSrvEnv
    /\ srvPc = "start"
    /\ vector_store = <<>> /\ embedder = <<>> /\ chatbot = <<>>
    /\ lastReq = NoRequest
StoreIdle == chunks = <<>> /\ storeOp = [op |-> "none", nTexts |-> 0, nEmbeddings |-> 0, query |-> <<>>,
                                         top_k |-> 0, result |-> <<>>, raised |-> "none"]

\* ---------------------------------------------------- store: operations
NoStoreOp ==
    [op |-> "none", nTexts |-> 0, nEmbeddings |-> 0, query |-> <<>>, top_k |-> 0,
     result |-> <<>>, raised |-> "none"]

\* store.add_documents(texts, embeddings); the method has no raise statement
AddDocuments(texts, embeddings) ==
    /\ Len(chunks) + Len(Zip(texts, embeddings)) <= MaxRecords
    /\ chunks' = add_documents(chunks, texts, embeddings)
    /\ storeOp' = [NoStoreOp EXCEPT !.op = "add", !.nTexts = Len(texts),
                                    !.nEmbeddings = Len(embeddings)]
    /\ UNCHANGED <<buildVars, serveVars>>

\* store.search(query_embedding, top_k)
Search(query_embedding, top_k) ==
    /\ storeOp' = IF SearchRaises(chunks, query_embedding)
                  THEN [NoStoreOp EXCEPT !.op = "search", !.query = query_embedding,
                                         !.top_k = top_k, !.raised = "ValueError"]
                  ELSE [NoStoreOp EXCEPT !.op = "search", !.query = query_embedding,
                                         !.top_k = top_k,
                                         !.result = search(chunks, query_embedding, top_k)]
    /\ UNCHANGED <<chunks, buildVars, serveVars>>

InitStore ==
    /\ chunks = <<>>
    /\ storeOp = NoStoreOp
    /\ BuildIdle
    /\ ServeIdle

NextStore ==
    \/ \E texts \in SeqsUpTo(StoreTexts, MaxBatch), embeddings \in SeqsUpTo(Vecs, MaxBatch) :
          AddDocuments(texts, embeddings)
    \/ \E q \in Queries, k \in (0 - MaxTopK)..MaxTopK : Search(q, k)

SpecStore == InitStore /\ [][NextStore]_vars

\* ------------------------------------------------------- store: claims

\* C1: after any sequence of add() calls from an empty index, the record at
\* position p (0-based) has id p: ids are unique and contiguous in insertion
\* order.
C1_IdsContiguous ==
    \A p \in 1..Len(chunks) : chunks[p].id = p - 1

\* C2: add(texts, embeddings) with len(texts) # len(embeddings) fails with a
\* dimension-mismatch error and leaves the records exactly as they were.
C2_MismatchRejected ==
    [][(storeOp'.op = "add" /\ storeOp'.nTexts # storeOp'.nEmbeddings)
          => (storeOp'.raised = "DimensionMismatchError" /\ chunks' = chunks)]_vars

\* C3: search returns its pairs by non-increasing score, and two returned
\* records of equal score appear in insertion order.
C3_SortedStable ==
    storeOp.op = "search" =>
        \A i, j \in 1..Len(storeOp.result) :
            i < j =>
                /\ ~ScoreLess(storeOp.result[i].score, storeOp.result[j].score)
                /\ ScoreEq(storeOp.result[i].score, storeOp.result[j].score)
                      => storeOp.result[i].pos < storeOp.result[j].pos

\* a search returned three records, two of them tied and one ranked strictly
\* above another
C3_Witness ==
    /\ storeOp.op = "search"
    /\ Len(storeOp.result) = 3
    /\ \E i, j \in 1..3 : i < j /\ ScoreEq(storeOp.result[i].score, storeOp.result[j].score)
                               /\ storeOp.result[i].chunk # storeOp.result[j].chunk
    /\ \E i, j \in 1..3 : ScoreLess(storeOp.result[j].score, storeOp.result[i].score)

\* record at store position p ranks strictly before the record at position r
\* for the query of the last search: higher score, or equal score and earlier
RanksBefore(p, r) ==
    LET sp == _cosine_similarity(storeOp.query, chunks[p].embedding)
        sr == _cosine_similarity(storeOp.query, chunks[r].embedding)
    IN  ScoreLess(sr, sp) \/ (ScoreEq(sp, sr) /\ p < r)

\* C4: for an index of N records and a count top_k = k >= 0 (negative top_k
\* is the case of C5), search returns exactly min(k, N) entries, each a stored
\* record with its score, in ranking order, and every record left out ranks
\* after every record returned.
C4_TopKPrefix ==
    (storeOp.op = "search" /\ storeOp.top_k >= 0) =>
        LET res == storeOp.result
            returned == {res[i].pos : i \in 1..Len(res)}
        IN  /\ Len(res) = Min(storeOp.top_k, Len(chunks))
            /\ Cardinality(returned) = Len(res)
            /\ \A i \in 1..Len(res) :
                  /\ res[i].pos \in 1..Len(chunks)
                  /\ res[i].chunk = chunks[res[i].pos]
                  /\ res[i].score = _cosine_similarity(storeOp.query, res[i].chunk.embedding)
            /\ \A i, j \in 1..Len(res) : i < j => RanksBefore(res[i].pos, res[j].pos)
            /\ \A p \in (1..Len(chunks)) \ returned : \A r \in returned : RanksBefore(r, p)

\* a search with 0 < top_k < N whose best record is not the first one stored
C4_Witness ==
    /\ storeOp.op = "search"
    /\ storeOp.top_k > 0
    /\ storeOp.top_k < Len(chunks)
    /\ Len(storeOp.result) = storeOp.top_k
    /\ storeOp.result[1].pos > storeOp.top_k

\* C5: search returns an empty result whenever top_k <= 0 or the index holds
\* no records.
C5_EmptyForNonPositive ==
    (storeOp.op = "search" /\ (storeOp.top_k <= 0 \/ Len(chunks) = 0))
        => storeOp.result = <<>>

\* ----------------------------------------------------------- str methods
\* a str is a sequence of one-character strings
UpperSeq ==
    <<"A", "B", "C", "D", "E", "F", "G", "H", "I", "J", "K", "L", "M", "N", "O", "P", "Q", "R",
      "S", "T", "U", "V", "W", "X", "Y", "Z", "É", "À">>
LowerSeq ==
    <<"a", "b", "c", "d", "e", "f", "g", "h", "i", "j", "k", "l", "m", "n", "o", "p", "q", "r",
      "s", "t", "u", "v", "w", "x", "y", "z", "é", "à">>
UpperChars == {UpperSeq[i] : i \in 1..Len(UpperSeq)}
LowerChars == {LowerSeq[i] : i \in 1..Len(LowerSeq)}

\* c.isupper(), c.isalpha(), c.isspace() for one character
IsUpper(c) == c \in UpperChars
IsAlpha(c) == c \in UpperChars \cup LowerChars
IsSpace(c) == c \in {" ", "\n", "\t"}

\* str.lower()
LowerChar(c) ==
    IF c \in UpperChars THEN LowerSeq[CHOOSE i \in 1..Len(UpperSeq) : UpperSeq[i] = c] ELSE c
Lower(s) == [i \in 1..Len(s) |-> LowerChar(s[i])]

\* str.strip()
RECURSIVE LStrip(_)
LStrip(s) == IF s # <<>> /\ IsSpace(Head(s)) THEN LStrip(Tail(s)) ELSE s
RECURSIVE RStrip(_)
RStrip(s) == IF s # <<>> /\ IsSpace(s[Len(s)]) THEN RStrip(SubSeq(s, 1, Len(s) - 1)) ELSE s
Strip(s) == RStrip(LStrip(s))

\* sep.join(parts)
RECURSIVE JoinFrom(_, _, _)
JoinFrom(parts, sep, i) ==
    IF i > Len(parts) THEN <<>>
    ELSE IF i = Len(parts) THEN parts[i]
    ELSE parts[i] \o sep \o JoinFrom(parts, sep, i + 1)
Join(parts, sep) == JoinFrom(parts, sep, 1)

\* str.splitlines(): lines end at "\n"; no empty last line after a final "\n"
RECURSIVE SplitLinesFrom(_, _, _, _)
SplitLinesFrom(s, i, cur, acc) ==
    IF i > Len(s) THEN (IF cur = <<>> THEN acc ELSE Append(acc, cur))
    ELSE IF s[i] = "\n" THEN SplitLinesFrom(s, i + 1, <<>>, Append(acc, cur))
    ELSE SplitLinesFrom(s, i + 1, Append(cur, s[i]), acc)
SplitLines(s) == SplitLinesFrom(s, 1, <<>>, <<>>)

\* str.split(): the maximal runs of non-whitespace characters
RECURSIVE SplitWordsFrom(_, _, _, _)
SplitWordsFrom(s, i, cur, acc) ==
    IF i > Len(s) THEN (IF cur = <<>> THEN acc ELSE Append(acc, cur))
    ELSE IF IsSpace(s[i]) THEN SplitWordsFrom(s, i + 1, <<>>, IF cur = <<>> THEN acc ELSE Append(acc, cur))
    ELSE SplitWordsFrom(s, i + 1, Append(cur, s[i]), acc)
SplitWords(s) == SplitWordsFrom(s, 1, <<>>, <<>>)

CountChars(s, S) == Cardinality({i \in 1..Len(s) : s[i] \in S})

\* -------------------------------------------------------------- cv_loader
\* SECTION_PATTERNS in dict order; every pattern is anchored (^...$) and its
\* only operator is "?", so each is the finite set of strings it matches
SECTION_PATTERNS ==
    << [section_type |-> "experience",
        matches |-> {<<"e", "x", "p", "é", "r", "i", "e", "n", "c", "e", " ", "p", "r", "o", "f", "e", "s", "s", "i", "o", "n", "n", "e", "l", "l", "e">>, <<"e", "x", "p", "é", "r", "i", "e", "n", "c", "e", "s", " ", "p", "r", "o", "f", "e", "s", "s", "i", "o", "n", "n", "e", "l", "l", "e">>,
                     <<"e", "x", "p", "é", "r", "i", "e", "n", "c", "e", " ", "p", "r", "o", "f", "e", "s", "s", "i", "o", "n", "n", "e", "l", "l", "e", "s">>, <<"e", "x", "p", "é", "r", "i", "e", "n", "c", "e", "s", " ", "p", "r", "o", "f", "e", "s", "s", "i", "o", "n", "n", "e", "l", "l", "e", "s">>,
                     <<"e", "x", "p", "e", "r", "i", "e", "n", "c", "e", " ", "p", "r", "o", "f", "e", "s", "s", "i", "o", "n", "n", "e", "l", "l", "e">>, <<"w", "o", "r", "k", " ", "e", "x", "p", "e", "r", "i", "e", "n", "c", "e">>,
                     <<"p", "r", "o", "f", "e", "s", "s", "i", "o", "n", "a", "l", " ", "e", "x", "p", "e", "r", "i", "e", "n", "c", "e">>}],
       [section_type |-> "education",
        matches |-> {<<"f", "o", "r", "m", "a", "t", "i", "o", "n">>, <<"é", "d", "u", "c", "a", "t", "i", "o", "n">>, <<"e", "d", "u", "c", "a", "t", "i", "o", "n">>, <<"s", "t", "u", "d", "i", "e", "s">>}],
       [section_type |-> "skills",
        matches |-> {<<"c", "o", "m", "p", "é", "t", "e", "n", "c", "e", "s">>, <<"s", "k", "i", "l", "l", "s">>, <<"t", "e", "c", "h", "n", "i", "c", "a", "l", " ", "s", "k", "i", "l", "l", "s">>,
                     <<"c", "o", "m", "p", "é", "t", "e", "n", "c", "e", "s", " ", "t", "e", "c", "h", "n", "i", "q", "u", "e", "s">>}],
       [section_type |-> "projects",
        matches |-> {<<"p", "r", "o", "j", "e", "t">>, <<"p", "r", "o", "j", "e", "t", "s">>, <<"p", "r", "o", "j", "e", "c", "t">>, <<"p", "r", "o", "j", "e", "c", "t", "s">>,
                     <<"p", "e", "r", "s", "o", "n", "a", "l", " ", "p", "r", "o", "j", "e", "c", "t", "s">>}],
       [section_type |-> "summary",
        matches |-> {<<"p", "r", "o", "f", "i", "l">>, <<"p", "r", "o", "f", "i", "l", " ", "p", "r", "o", "f", "e", "s", "s", "i", "o", "n", "n", "e", "l">>, <<"r", "é", "s", "u", "m", "é">>, <<"s", "u", "m", "m", "a", "r", "y">>,
                     <<"a", "b", "o", "u", "t", " ", "m", "e">>, <<"à", " ", "p", "r", "o", "p", "o", "s">>}] >>

None == "None"

\* first section type, in table order, one of whose patterns matches the
\* stripped, lower-cased title
_guess_section_type(title) ==
    LET title_norm == Lower(Strip(title))
        hits == {k \in 1..Len(SECTION_PATTERNS) : title_norm \in SECTION_PATTERNS[k].matches}
    IN  IF hits = {} THEN None
        ELSE SECTION_PATTERNS[CHOOSE k \in hits : \A m \in hits : k <= m].section_type

\* uppercase_chars / alpha_chars > 0.6 is 5 * uppercase_chars > 3 * alpha_chars
_is_potential_heading(line) ==
    IF Len(line) > 80 THEN FALSE
    ELSE IF _guess_section_type(line) # None THEN TRUE
    ELSE IF Len(SplitWords(line)) <= 5
         THEN LET uppercase_chars == CountChars(line, UpperChars)
                  alpha_chars == CountChars(line, UpperChars \cup LowerChars)
              IN  alpha_chars > 0 /\ 5 * uppercase_chars > 3 * alpha_chars
    ELSE FALSE

CVSection(title, content, section_type) ==
    [title |-> title, content |-> content, section_type |-> section_type]

\* flush_section() without the `if current_lines` and `if content` tests
flush_section_always(sections, current_title, current_lines) ==
    Append(sections, CVSection(Strip(current_title),
                               Strip(Join(current_lines, <<"\n">>)),
                               _guess_section_type(current_title)))

\* flush_section(): the sections list after the call (current_lines is
\* cleared by the caller's next state)
flush_section(sections, current_title, current_lines) ==
    IF current_lines # <<>> /\ Strip(Join(current_lines, <<"\n">>)) # <<>>
    THEN Append(sections, CVSection(Strip(current_title),
                                    Strip(Join(current_lines, <<"\n">>)),
                                    _guess_section_type(current_title)))
    ELSE sections

\* the for loop of split_cv_into_sections followed by the last flush
RECURSIVE SectionLoop(_, _, _, _, _)
SectionLoop(lines, i, sections, current_title, current_lines) ==
    IF i > Len(lines) THEN flush_section(sections, current_title, current_lines)
    ELSE IF _is_potential_heading(lines[i])
         THEN SectionLoop(lines, i + 1, flush_section(sections, current_title, current_lines),
                          lines[i], <<>>)
    ELSE SectionLoop(lines, i + 1, sections, current_title, Append(current_lines, lines[i]))

NonEmptyStrippedLines(raw_text) ==
    LET stripped == [i \in 1..Len(SplitLines(raw_text)) |-> Strip(SplitLines(raw_text)[i])]
    IN  SelectSeq(stripped, LAMBDA l : l # <<>>)

split_cv_into_sections(raw_text) ==
    LET lines == NonEmptyStrippedLines(raw_text)
        sections == SectionLoop(lines, 1, <<>>, <<"C", "V">>, <<>>)
    IN  IF lines = <<>> THEN <<>>
        ELSE IF sections = <<>> THEN << CVSection(<<"C", "V">>, Strip(raw_text), None) >>
        ELSE sections

\* re.split(r"\n\s*\n", text): a separator starts at a "\n" and runs to the
\* last "\n" of the whitespace run that follows it
RECURSIVE SplitParagraphsFrom(_, _, _, _)
SplitParagraphsFrom(s, i, cur, acc) ==
    IF i > Len(s) THEN Append(acc, cur)
    ELSE LET ws == {j \in i..Len(s) : \A m \in i..j : IsSpace(s[m])}
             ends == {j \in ws : j > i /\ s[j] = "\n"}
         IN  IF s[i] = "\n" /\ ends # {}
             THEN SplitParagraphsFrom(s, (CHOOSE j \in ends : \A m \in ends : m <= j) + 1,
                                      <<>>, Append(acc, cur))
             ELSE SplitParagraphsFrom(s, i + 1, Append(cur, s[i]), acc)
SplitParagraphs(s) == SplitParagraphsFrom(s, 1, <<>>, <<>>)

\* str.expandtabs(8): a tab becomes spaces up to the next multiple of 8 in
\* its line
RECURSIVE ExpandTabsFrom(_, _, _, _)
ExpandTabsFrom(s, i, col, acc) ==
    IF i > Len(s) THEN acc
    ELSE IF s[i] = "\t"
         THEN ExpandTabsFrom(s, i + 1, 0, acc \o [k \in 1..(8 - (col % 8)) |-> " "])
    ELSE IF s[i] = "\n" THEN ExpandTabsFrom(s, i + 1, 0, Append(acc, s[i]))
    ELSE ExpandTabsFrom(s, i + 1, col + 1, Append(acc, s[i]))

\* TextWrapper._munge_whitespace: tabs expanded, then every whitespace
\* character replaced by a space
MungeWhitespace(s) ==
    LET e == ExpandTabsFrom(s, 1, 0, <<>>)
    IN  [i \in 1..Len(e) |-> IF IsSpace(e[i]) THEN " " ELSE e[i]]

\* TextWrapper._split for text without "-": the maximal runs of whitespace
\* and of non-whitespace, in order
RECURSIVE SplitChunksFrom(_, _, _, _)
SplitChunksFrom(s, i, cur, acc) ==
    IF i > Len(s) THEN (IF cur = <<>> THEN acc ELSE Append(acc, cur))
    ELSE IF cur # <<>> /\ IsSpace(cur[1]) # IsSpace(s[i])
         THEN SplitChunksFrom(s, i + 1, <<s[i]>>, Append(acc, cur))
    ELSE SplitChunksFrom(s, i + 1, Append(cur, s[i]), acc)
SplitChunks(s) == SplitChunksFrom(s, 1, <<>>, <<>>)

IsBlank(chunk) == Strip(chunk) = <<>>

RECURSIVE SumLen(_, _)
SumLen(cs, n) == IF n = 0 THEN 0 ELSE Len(cs[n]) + SumLen(cs, n - 1)

RECURSIVE Concat(_)
Concat(cs) == IF cs = <<>> THEN <<>> ELSE Head(cs) \o Concat(Tail(cs))

\* TextWrapper._wrap_chunks with drop_whitespace=True, break_long_words=False
RECURSIVE WrapChunks(_, _, _)
WrapChunks(cs, width, lines) ==
    IF cs = <<>> THEN lines
    ELSE LET cs1 == IF IsBlank(cs[1]) /\ lines # <<>> THEN Tail(cs) ELSE cs
             fits == {n \in 0..Len(cs1) : SumLen(cs1, n) <= width}
             n == CHOOSE k \in fits : \A m \in fits : m <= k
             longWord == n = 0 /\ cs1 # <<>> /\ Len(cs1[1]) > width
             cur_line == IF longWord THEN <<cs1[1]>> ELSE SubSeq(cs1, 1, n)
             rest == SubSeq(cs1, Len(cur_line) + 1, Len(cs1))
             kept == IF cur_line # <<>> /\ IsBlank(cur_line[Len(cur_line)])
                     THEN SubSeq(cur_line, 1, Len(cur_line) - 1) ELSE cur_line
         IN  WrapChunks(rest, width, IF kept # <<>> THEN Append(lines, Concat(kept)) ELSE lines)

\* textwrap.wrap(para, width=width, break_long_words=False)
textwrap_wrap(para, width) == WrapChunks(SplitChunks(MungeWhitespace(para)), width, <<>>)

RECURSIVE SplitParasLoop(_, _, _, _)
SplitParasLoop(paragraphs, i, max_chars, cks) ==
    IF i > Len(paragraphs) THEN cks
    ELSE LET para == Strip(paragraphs[i])
         IN  IF para = <<>> THEN SplitParasLoop(paragraphs, i + 1, max_chars, cks)
             ELSE IF Len(para) <= max_chars
                  THEN SplitParasLoop(paragraphs, i + 1, max_chars, Append(cks, para))
             ELSE SplitParasLoop(paragraphs, i + 1, max_chars, cks \o textwrap_wrap(para, max_chars))

_split_text_into_chunks(text, max_chars) ==
    SplitParasLoop(SplitParagraphs(text), 1, max_chars, <<>>)

\* first loop of cv_to_text_chunks: one chunk per section, or its split
RECURSIVE SectionChunks(_, _, _, _)
SectionChunks(sections, i, max_chars, cks) ==
    IF i > Len(sections) THEN cks
    ELSE LET section_header == <<"[", "S", "e", "c", "t", "i", "o", "n", ":", " ">> \o sections[i].title \o <<"]">>
             base_text == section_header \o <<"\n">> \o sections[i].content
         IN  IF Len(base_text) <= max_chars
             THEN SectionChunks(sections, i + 1, max_chars, Append(cks, base_text))
             ELSE SectionChunks(sections, i + 1, max_chars,
                                cks \o _split_text_into_chunks(base_text, max_chars))

\* merge loop of cv_to_text_chunks, with the final flush of the buffer
RECURSIVE MergeLoop(_, _, _, _, _)
MergeLoop(cks, i, min_chars, buffer, merged) ==
    IF i > Len(cks) THEN (IF buffer # <<>> THEN Append(merged, buffer) ELSE merged)
    ELSE IF buffer = <<>> THEN MergeLoop(cks, i + 1, min_chars, cks[i], merged)
    ELSE IF Len(buffer) + Len(cks[i]) < min_chars
         THEN MergeLoop(cks, i + 1, min_chars, buffer \o <<"\n", "\n">> \o cks[i], merged)
    ELSE MergeLoop(cks, i + 1, min_chars, cks[i], Append(merged, buffer))

\* cv_to_text_chunks flushing the buffer at half of min_chars
cv_to_text_chunks_half_threshold(sections, max_chars, min_chars) ==
    MergeLoop(SectionChunks(sections, 1, max_chars, <<>>), 1, min_chars \div 2, <<>>, <<>>)

\* cv_to_text_chunks testing len(base_text) < max_chars
cv_to_text_chunks_strict_fit(sections, max_chars, min_chars) ==
    MergeLoop(SectionChunks(sections, 1, max_chars - 1, <<>>), 1, min_chars, <<>>, <<>>)

\* cv_to_text_chunks merging while the sum is below min_chars + 3
cv_to_text_chunks_wider_merge(sections, max_chars, min_chars) ==
    MergeLoop(SectionChunks(sections, 1, max_chars, <<>>), 1, min_chars + 3, <<>>, <<>>)

cv_to_text_chunks(sections, max_chars, min_chars) ==
    MergeLoop(SectionChunks(sections, 1, max_chars, <<>>), 1, min_chars, <<>>, <<>>)

DefaultMaxChars == 800
DefaultMinChars == 200

\* -------------------------------------------------------- linkedin_loader
\* Optional[...] values: Nothing is Python's None, Some(v) a present value
Nothing == <<>>
Some(v) == <<v>>
\* truth value of an Optional[str]: None and "" are falsy
Truthy(o) == o # Nothing /\ o[1] # <<>>
\* a or b
Or(a, b) == IF Truthy(a) THEN a ELSE b
\* (o or default) for an Optional[str] o and a str default
OrStr(o, default) == IF Truthy(o) THEN o[1] ELSE default

\* a file of the export directory
AbsentFile == [kind |-> "absent", data |-> <<>>]
UnreadableFile == [kind |-> "unreadable", data |-> <<>>]
JsonFile(dict) == [kind |-> "json", data |-> dict]
CsvFile(rows) == [kind |-> "csv", data |-> rows]

\* _safe_read_json: None when the file is absent or json.load raises
_safe_read_json(file) == IF file.kind = "json" THEN Some(file.data) ELSE Nothing
\* _safe_read_csv: None when the file is absent or pd.read_csv raises
_safe_read_csv(file) == IF file.kind = "csv" THEN Some(file.data) ELSE Nothing

\* dict.get(key): None for an absent key
DictGet(dict, key) == IF key \in DOMAIN dict THEN Some(dict[key]) ELSE Nothing
\* row.get(column, ""), after df.fillna("")
RowGet(row, column) == IF column \in DOMAIN row THEN row[column] ELSE <<>>
\* a or b for two str values
OrS(a, b) == IF a # <<>> THEN a ELSE b
\* str(v).strip() or None
StripOrNone(v) == IF Strip(v) # <<>> THEN Some(Strip(v)) ELSE Nothing

\* the candidate loop of load_profile: the value profile_data holds after it
RECURSIVE ProfileCandidates(_, _, _)
ProfileCandidates(dir, names, i) ==
    IF i > Len(names) THEN Nothing
    ELSE LET profile_data == _safe_read_json(dir[names[i]])
         IN  IF profile_data # Nothing /\ DOMAIN profile_data[1] # {} THEN profile_data
             ELSE IF i = Len(names) THEN profile_data
             ELSE ProfileCandidates(dir, names, i + 1)

ProfileSummary(first_name, last_name, headline, summary, location) ==
    [first_name |-> first_name, last_name |-> last_name, headline |-> headline,
     summary |-> summary, location |-> location]

load_profile(dir) ==
    LET profile_data == ProfileCandidates(dir, <<"Profile.json", "profile.json", "Profile.txt.json">>, 1)
    IN  IF profile_data = Nothing \/ DOMAIN profile_data[1] = {} THEN Nothing
        ELSE LET d == profile_data[1]
             IN  Some(ProfileSummary(
                        Or(DictGet(d, "firstName"), DictGet(d, "First Name")),
                        Or(DictGet(d, "lastName"), DictGet(d, "Last Name")),
                        Or(DictGet(d, "headline"), DictGet(d, "Headline")),
                        Or(DictGet(d, "summary"), DictGet(d, "Summary")),
                        Or(Or(DictGet(d, "locationName"), DictGet(d, "Location")),
                           DictGet(d, "location"))))

\* the candidate loops of the CSV loaders: the first file pd.read_csv can read
RECURSIVE CsvCandidates(_, _, _)
CsvCandidates(dir, names, i) ==
    IF i > Len(names) THEN Nothing
    ELSE IF _safe_read_csv(dir[names[i]]) # Nothing THEN _safe_read_csv(dir[names[i]])
    ELSE CsvCandidates(dir, names, i + 1)

Position(title, company, location, description, start_date, end_date) ==
    [title |-> title, company |-> company, location |-> location,
     description |-> description, start_date |-> start_date, end_date |-> end_date]

PositionOfRow(row) ==
    Position(Strip(OrS(RowGet(row, "Title"), RowGet(row, "title"))),
             Strip(OrS(OrS(RowGet(row, "Company Name"), RowGet(row, "Company")),
                       RowGet(row, "companyName"))),
             StripOrNone(OrS(RowGet(row, "Location"), RowGet(row, "location"))),
             StripOrNone(OrS(OrS(RowGet(row, "Description"), RowGet(row, "description")),
                             RowGet(row, "Summary"))),
             StripOrNone(OrS(OrS(RowGet(row, "Started On"), RowGet(row, "Start Date")),
                             RowGet(row, "startDate"))),
             StripOrNone(OrS(OrS(RowGet(row, "Finished On"), RowGet(row, "End Date")),
                             RowGet(row, "endDate"))))

\* rows with neither a title nor a company are skipped
PositionRowKept(row) ==
    \/ OrS(RowGet(row, "Title"), RowGet(row, "title")) # <<>>
    \/ OrS(OrS(RowGet(row, "Company Name"), RowGet(row, "Company")), RowGet(row, "companyName")) # <<>>

load_positions(dir) ==
    LET df == CsvCandidates(dir, <<"Positions.csv", "positions.csv", "Experience.csv", "experience.csv">>, 1)
    IN  IF df = Nothing THEN <<>>
        ELSE LET rows == SelectSeq(df[1], PositionRowKept)
             IN  [i \in 1..Len(rows) |-> PositionOfRow(rows[i])]

Education(school, degree, field_of_study, start_date, end_date) ==
    [school |-> school, degree |-> degree, field_of_study |-> field_of_study,
     start_date |-> start_date, end_date |-> end_date]

SchoolOfRow(row) ==
    OrS(OrS(RowGet(row, "School Name"), RowGet(row, "School")), RowGet(row, "schoolName"))

EducationOfRow(row) ==
    Education(Strip(SchoolOfRow(row)),
              StripOrNone(OrS(RowGet(row, "Degree Name"), RowGet(row, "Degree"))),
              StripOrNone(OrS(OrS(RowGet(row, "Field Of Study"), RowGet(row, "Field of Study")),
                              RowGet(row, "fieldOfStudy"))),
              StripOrNone(OrS(OrS(RowGet(row, "Started On"), RowGet(row, "Start Date")),
                              RowGet(row, "startDate"))),
              StripOrNone(OrS(OrS(RowGet(row, "Finished On"), RowGet(row, "End Date")),
                              RowGet(row, "endDate"))))

load_educations(dir) ==
    LET df == CsvCandidates(dir, <<"Education.csv", "education.csv">>, 1)
    IN  IF df = Nothing THEN <<>>
        ELSE LET rows == SelectSeq(df[1], LAMBDA row : SchoolOfRow(row) # <<>>)
             IN  [i \in 1..Len(rows) |-> EducationOfRow(rows[i])]

SkillNameOfRow(row) == OrS(OrS(RowGet(row, "Name"), RowGet(row, "Skill")), RowGet(row, "name"))

Skill(name) == [name |-> name]

load_skills(dir) ==
    LET df == CsvCandidates(dir, <<"Skills.csv", "skills.csv">>, 1)
    IN  IF df = Nothing THEN <<>>
        ELSE LET rows == SelectSeq(df[1], LAMBDA row : SkillNameOfRow(row) # <<>>)
             IN  [i \in 1..Len(rows) |-> Skill(Strip(SkillNameOfRow(rows[i])))]

\* the LinkedInData dataclass has exactly these four fields
LinkedInData(profile, positions, educations, skills) ==
    [profile |-> profile, positions |-> positions, educations |-> educations, skills |-> skills]

load_linkedin_export(dir) ==
    LinkedInData(load_profile(dir), load_positions(dir), load_educations(dir), load_skills(dir))

\* the profile chunk's lines
ProfilLines(p) ==
    (IF Truthy(p.first_name) \/ Truthy(p.last_name)
       THEN << Strip(<<"N", "o", "m", " ", ":", " ">> \o OrStr(p.first_name, <<>>) \o <<" ">> \o OrStr(p.last_name, <<>>)) >>
       ELSE <<>>)
    \o (IF Truthy(p.headline) THEN << <<"T", "i", "t", "r", "e", " ", "L", "i", "n", "k", "e", "d", "I", "n", " ", ":", " ">> \o p.headline[1] >> ELSE <<>>)
    \o (IF Truthy(p.location) THEN << <<"L", "o", "c", "a", "l", "i", "s", "a", "t", "i", "o", "n", " ", ":", " ">> \o p.location[1] >> ELSE <<>>)
    \o (IF Truthy(p.summary) THEN << <<"R", "é", "s", "u", "m", "é", " ", ":", " ">> \o p.summary[1] >> ELSE <<>>)

ProfileChunks(profile) ==
    IF profile # Nothing /\ ProfilLines(profile[1]) # <<>>
    THEN << <<"P", "r", "o", "f", "i", "l", " ", "L", "i", "n", "k", "e", "d", "I", "n", "\n">> \o Join(ProfilLines(profile[1]), <<"\n">>) >>
    ELSE <<>>

PositionChunk(pos) ==
    Join(<< <<"E", "x", "p", "é", "r", "i", "e", "n", "c", "e", " ", "p", "r", "o", "f", "e", "s", "s", "i", "o", "n", "n", "e", "l", "l", "e">>,
            <<"P", "o", "s", "t", "e", " ", ":", " ">> \o pos.title,
            <<"E", "n", "t", "r", "e", "p", "r", "i", "s", "e", " ", ":", " ">> \o pos.company >>
         \o (IF Truthy(pos.location) THEN << <<"L", "o", "c", "a", "l", "i", "s", "a", "t", "i", "o", "n", " ", ":", " ">> \o pos.location[1] >> ELSE <<>>)
         \o (IF Truthy(pos.start_date) \/ Truthy(pos.end_date)
               THEN << <<"P", "é", "r", "i", "o", "d", "e", " ", ":", " ">> \o OrStr(pos.start_date, <<"?">>) \o <<" ", "→", " ">>
                       \o OrStr(pos.end_date, <<"P", "r", "é", "s", "e", "n", "t">>) >>
               ELSE <<>>)
         \o (IF Truthy(pos.description) THEN << <<"D", "e", "s", "c", "r", "i", "p", "t", "i", "o", "n", " ", ":", " ">> \o pos.description[1] >> ELSE <<>>),
         <<"\n">>)

EducationChunk(edu) ==
    Join(<< <<"F", "o", "r", "m", "a", "t", "i", "o", "n">>,
            <<"É", "t", "a", "b", "l", "i", "s", "s", "e", "m", "e", "n", "t", " ", ":", " ">> \o edu.school >>
         \o (IF Truthy(edu.degree) THEN << <<"D", "i", "p", "l", "ô", "m", "e", " ", ":", " ">> \o edu.degree[1] >> ELSE <<>>)
         \o (IF Truthy(edu.field_of_study)
               THEN << <<"D", "o", "m", "a", "i", "n", "e", " ", "d", "'", "é", "t", "u", "d", "e", " ", ":", " ">> \o edu.field_of_study[1] >> ELSE <<>>)
         \o (IF Truthy(edu.start_date) \/ Truthy(edu.end_date)
               THEN << <<"P", "é", "r", "i", "o", "d", "e", " ", ":", " ">> \o OrStr(edu.start_date, <<"?">>) \o <<" ", "→", " ">>
                       \o OrStr(edu.end_date, <<"?">>) >>
               ELSE <<>>),
         <<"\n">>)

SkillsChunks(skills) ==
    IF skills # <<>>
    THEN << <<"C", "o", "m", "p", "é", "t", "e", "n", "c", "e", "s", " ", "L", "i", "n", "k", "e", "d", "I", "n", " ", ":", " ">>
            \o Join([i \in 1..Len(skills) |-> skills[i].name], <<",", " ">>) >>
    ELSE <<>>

\* profile, then positions, then educations, then the skill list
linkedin_data_to_text_chunks(data) ==
    ProfileChunks(data.profile)
    \o [i \in 1..Len(data.positions) |-> PositionChunk(data.positions[i])]
    \o [i \in 1..Len(data.educations) |-> EducationChunk(data.educations[i])]
    \o SkillsChunks(data.skills)

\* ---------------------------------------------------------------- build
\* load_cv_text: a CV file is [exists, suffix, readable, parts]; parts are the
\* PDF's pages (extract_text() may give None) or the DOCX's paragraphs;
\* readable is FALSE when the parsing library cannot open the file
Raised(name) == [raised |-> name, text |-> <<>>]
Returned(text) == [raised |-> "none", text |-> text]

_load_pdf_text(file) ==
    IF ~file.readable THEN Raised("ParseError")
    ELSE Returned(Join([i \in 1..Len(file.parts) |-> OrStr(file.parts[i], <<>>)], <<"\n">>))

_load_docx_text(file) ==
    IF ~file.readable THEN Raised("ParseError")
    ELSE LET texts == [i \in 1..Len(file.parts) |-> Strip(OrStr(file.parts[i], <<>>))]
         IN  Returned(Join(SelectSeq(texts, LAMBDA t : t # <<>>), <<"\n">>))

load_cv_text(env) ==
    LET suffix == Lower(env.cv.suffix)
    IN  IF ~env.cv.exists THEN Raised("FileNotFoundError")
        ELSE IF suffix = <<".", "p", "d", "f">>
             THEN (IF ~env.pdfplumber THEN Raised("ImportError") ELSE _load_pdf_text(env.cv))
        ELSE IF suffix \in {<<".", "d", "o", "c", "x">>, <<".", "d", "o", "c">>}
             THEN (IF ~env.docx THEN Raised("ImportError") ELSE _load_docx_text(env.cv))
        ELSE Raised("ValueError")

\* load_cv_document: [raised, raw_text, sections]
load_cv_document(env) ==
    LET loaded == load_cv_text(env)
    IN  [raised |-> loaded.raised, raw_text |-> loaded.text,
         sections |-> IF loaded.raised = "none" THEN split_cv_into_sections(loaded.text) ELSE <<>>]

\* Embedder.encode: the sentence-transformers model is a fixed map from a
\* text to a vector of two numbers
EmbedText(t) == <<(CountChars(t, UpperChars \cup LowerChars) % 3) - 1, Len(t) % 2>>
Encode(texts) == [i \in 1..Len(texts) |-> EmbedText(texts[i])]

KbRaised(name) == [raised |-> name, texts |-> <<>>, embeddings |-> <<>>]

\* build_knowledge_base: the exception it ends with, or the dict it returns.
\* Reading an attribute the LinkedInData dataclass does not have raises
\* AttributeError.
build_knowledge_base(env) ==
    LET cv_doc == load_cv_document(env)
        cv_chunks == cv_to_text_chunks(cv_doc.sections, DefaultMaxChars, DefaultMinChars)
        linkedin_data == load_linkedin_export(env.dir)
        linkedin_chunks == linkedin_data_to_text_chunks(linkedin_data)
        all_texts == cv_chunks \o linkedin_chunks
    IN  IF cv_doc.raised # "none" THEN KbRaised(cv_doc.raised)
        ELSE IF "certifications" \notin DOMAIN linkedin_data THEN KbRaised("AttributeError")
        ELSE IF "projects" \notin DOMAIN linkedin_data THEN KbRaised("AttributeError")
        ELSE IF all_texts = <<>> THEN KbRaised("RuntimeError: Aucun texte a indexer")
        ELSE IF ~env.model_ok THEN KbRaised("OSError")
        ELSE [raised |-> "none", texts |-> all_texts, embeddings |-> Encode(all_texts)]

\* pickle.dump(obj): the stream records the object's class and its state
Pickled(cls, state) == << [cls |-> cls, state |-> state] >>

\* save_index pickling the store before add_documents filled it
save_index_before_add(knowledge_base) ==
    [kb_file |-> Pickled("dict", [texts |-> knowledge_base.texts,
                                  embeddings |-> knowledge_base.embeddings]),
     vs_file |-> Pickled("SimpleVectorStore", [chunks |-> <<>>])]

\* save_index: the output directory after the call
save_index(knowledge_base) ==
    [kb_file |-> Pickled("dict", [texts |-> knowledge_base.texts,
                                  embeddings |-> knowledge_base.embeddings]),
     vs_file |-> Pickled("SimpleVectorStore",
                         [chunks |-> add_documents(<<>>, knowledge_base.texts,
                                                   knowledge_base.embeddings)])]

\* main(): build_knowledge_base, then save_index unless an exception ended it
Main ==
    /\ ~buildRun.done
    /\ LET kb == build_knowledge_base(buildEnv)
       IN  /\ buildRun' = [done |-> TRUE, raised |-> kb.raised, texts |-> kb.texts,
                           embeddings |-> kb.embeddings]
           /\ outDir' = IF kb.raised = "none" THEN save_index(kb) ELSE outDir
    /\ UNCHANGED <<buildEnv, ingestOp, storeVars, serveVars>>

\* ------------------------------------------------- build: inputs and runs
CvFile(exists, suffix, readable, parts) ==
    [exists |-> exists, suffix |-> suffix, readable |-> readable, parts |-> parts]

\* the CV files the build is run on
CvFiles ==
    { CvFile(FALSE, <<".", "p", "d", "f">>, FALSE, <<>>),
      CvFile(TRUE, <<".", "p", "d", "f">>, TRUE, << Some(<<"S", "K", "I", "L", "L", "S", "\n", "P", "y">>), Nothing >>),
      CvFile(TRUE, <<".", "P", "D", "F">>, TRUE, << Some(<<"h", "e", "l", "l", "o", "\n", "\n", "w", "o", "r", "l", "d">>) >>),
      CvFile(TRUE, <<".", "p", "d", "f">>, TRUE, << Nothing >>),
      CvFile(TRUE, <<".", "p", "d", "f">>, FALSE, <<>>),
      CvFile(TRUE, <<".", "d", "o", "c", "x">>, TRUE, << Some(<<" ", "A", "b", "o", "u", "t", " ", "m", "e", " ">>), Some(<<>>), Some(<<"d", "e", "v">>) >>),
      CvFile(TRUE, <<".", "d", "o", "c">>, TRUE, << Some(<<" ", " ">>) >>),
      CvFile(TRUE, <<".", "t", "x", "t">>, TRUE, << Some(<<"S", "K", "I", "L", "L", "S", "\n", "P", "y">>) >>) }

ProfileNames == {"Profile.json", "profile.json", "Profile.txt.json"}
PositionNames == {"Positions.csv", "positions.csv", "Experience.csv", "experience.csv"}
EducationNames == {"Education.csv", "education.csv"}
SkillNames == {"Skills.csv", "skills.csv"}

\* a category's files: all absent except those given
Files(names, present) == [n \in names |-> IF n \in DOMAIN present THEN present[n] ELSE AbsentFile]

ProfileOptions ==
    { Files(ProfileNames, <<>>),
      Files(ProfileNames, [n \in {"Profile.json"} |->
          JsonFile([k \in {"firstName", "Last Name", "headline"} |->
                      IF k = "firstName" THEN <<"A", "l">> ELSE IF k = "Last Name" THEN <<"B", "o">> ELSE <<"D", "e", "v">>])]),
      Files(ProfileNames, [n \in {"Profile.json", "profile.json"} |->
          IF n = "Profile.json" THEN JsonFile(<<>>)
          ELSE JsonFile([k \in {"Summary"} |-> <<"d", "a", "t", "a">>])]),
      Files(ProfileNames, [n \in {"Profile.json"} |-> UnreadableFile]),
      Files(ProfileNames, [n \in {"Profile.txt.json"} |-> JsonFile([k \in {"id"} |-> <<"7">>])]) }

PositionOptions ==
    { Files(PositionNames, <<>>),
      Files(PositionNames, [n \in {"Positions.csv"} |->
          CsvFile(<< [c \in {"Title", "Company Name", "Started On"} |->
                        IF c = "Title" THEN <<"D", "e", "v">> ELSE IF c = "Company Name" THEN <<"A", "c", "m", "e">> ELSE <<"2", "0", "2", "0">>],
                     [c \in {"Title", "Company Name", "Started On"} |-> <<>>] >>)]),
      Files(PositionNames, [n \in {"Positions.csv", "experience.csv"} |->
          IF n = "Positions.csv" THEN UnreadableFile ELSE CsvFile(<<>>)]) }

EducationOptions ==
    { Files(EducationNames, <<>>),
      Files(EducationNames, [n \in {"education.csv"} |->
          CsvFile(<< [c \in {"School", "Degree"} |-> IF c = "School" THEN <<"M", "I", "T">> ELSE <<>>] >>)]) }

SkillOptions ==
    { Files(SkillNames, <<>>),
      Files(SkillNames, [n \in {"Skills.csv"} |->
          CsvFile(<< [c \in {"Name"} |-> <<"P", "y">>], [c \in {"Name"} |-> <<>>],
                     [c \in {"Name"} |-> <<" ", "S", "Q", "L">>] >>)]) }

\* the export directories: one option per category
Dirs ==
    { p @@ q @@ e @@ s : p \in ProfileOptions, q \in PositionOptions,
                         e \in EducationOptions, s \in SkillOptions }

InitBuild ==
    /\ buildEnv \in [cv : CvFiles, dir : Dirs, pdfplumber : BOOLEAN, docx : BOOLEAN,
                     model_ok : BOOLEAN]
    /\ buildRun = NoBuildRun
    /\ outDir = NoOutDir
    /\ ingestOp = NoIngestOp
    /\ StoreIdle
    /\ ServeIdle

NextBuild == Main

SpecBuild == InitBuild /\ [][NextBuild]_vars

\* ---------------------------------------------------------- build: claims
\* what the documents of the run hold
CvReadable == load_cv_document(buildEnv).raised = "none"
CvUnsupported == buildEnv.cv.exists /\ load_cv_text(buildEnv).raised = "ValueError"
CvChunksOfRun ==
    cv_to_text_chunks(load_cv_document(buildEnv).sections, DefaultMaxChars, DefaultMinChars)
LinkedInChunksOfRun == linkedin_data_to_text_chunks(load_linkedin_export(buildEnv.dir))
NoTextToIndex == "RuntimeError: Aucun texte a indexer"

\* C6: with a readable resume and any subset of the export files present, the
\* build does not abort for a missing category: it reaches the embedding step
\* and returns the chunks of the categories present (at least one chunk
\* existing, the embedding model loading).
C6_MissingCategoryNotFatal ==
    (/\ buildRun.done
     /\ CvReadable
     /\ CvChunksOfRun \o LinkedInChunksOfRun # <<>>
     /\ buildEnv.model_ok)
        => /\ buildRun.raised = "none"
           /\ buildRun.texts = CvChunksOfRun \o LinkedInChunksOfRun
           /\ Len(buildRun.embeddings) = Len(buildRun.texts)

\* C7: when the documents yield zero chunks the build fails with the "no text
\* to index" error and writes nothing; a vector store file is only ever
\* written with at least one record.
C7_EmptyBuildFails ==
    /\ (buildRun.done /\ CvReadable /\ CvChunksOfRun \o LinkedInChunksOfRun = <<>>)
          => (buildRun.raised = NoTextToIndex /\ outDir = NoOutDir)
    /\ outDir.vs_file # <<>> => outDir.vs_file[1].state.chunks # <<>>

\* C8: a resume in an unsupported format does not abort the build: when the
\* export yields at least one chunk (and the embedding model loads), the build
\* succeeds and indexes the export's chunks.
C8_UnsupportedCvIsolated ==
    (buildRun.done /\ CvUnsupported /\ LinkedInChunksOfRun # <<>> /\ buildEnv.model_ok)
        => (buildRun.raised = "none" /\ buildRun.texts = LinkedInChunksOfRun)

\* --------------------------------------------------------------- serving
\* pickle.load(f): the object the stream describes
Unpickled(stream) == stream[1]

\* _load_vector_store: [raised, obj]
_load_vector_store(file) ==
    IF file = <<>> THEN [raised |-> "RuntimeError", obj |-> <<>>]
    ELSE IF Unpickled(file).cls # "SimpleVectorStore" THEN [raised |-> "TypeError", obj |-> <<>>]
    ELSE [raised |-> "none", obj |-> Some(Unpickled(file).state)]

\* on_startup, step 1: vector_store = _load_vector_store(DEFAULT_VECTOR_STORE_PATH)
StartupLoadVectorStore ==
    /\ srvPc = "start"
    /\ LET loaded == _load_vector_store(srvEnv.vs_file)
       IN  IF loaded.raised # "none"
           THEN srvPc' = "failed" /\ UNCHANGED vector_store
           ELSE srvPc' = "vs_loaded" /\ vector_store' = loaded.obj
    /\ UNCHANGED <<srvEnv, embedder, chatbot, lastReq, inflight, storeVars, buildVars>>

\* on_startup, step 2: embedder = Embedder(model_name=...)
StartupInitEmbedder ==
    /\ srvPc = "vs_loaded"
    /\ IF ~srvEnv.model_ok
       THEN srvPc' = "failed" /\ UNCHANGED embedder
       ELSE srvPc' = "embedder_ready" /\ embedder' = Some("Embedder")
    /\ UNCHANGED <<srvEnv, vector_store, chatbot, lastReq, inflight, storeVars, buildVars>>

\* CareerChatbot.__init__: [raised, obj]; the object refers to the store and
\* embedder it was given
CareerChatbot(vs, emb, env) ==
    IF ~env.openai_api_key THEN [raised |-> "ValueError", obj |-> <<>>]
    ELSE [raised |-> "none", obj |-> Some([vector_store |-> vs, embedder |-> emb, client |-> "OpenAI"])]

\* on_startup, step 3: chatbot = CareerChatbot(vector_store, embedder)
StartupInitChatbot ==
    /\ srvPc = "embedder_ready"
    /\ LET made == CareerChatbot(vector_store[1], embedder[1], srvEnv)
       IN  IF made.raised # "none"
           THEN srvPc' = "failed" /\ UNCHANGED chatbot
           ELSE srvPc' = "ready" /\ chatbot' = made.obj
    /\ UNCHANGED <<srvEnv, vector_store, embedder, lastReq, inflight, storeVars, buildVars>>

DefaultTopK == 5

\* CareerChatbot.build_context: [raised, texts], the texts of the top_k
\* ranked chunks; encode or search may raise
build_context(bot, query, top_k, embed_raised) ==
    LET query_emb == Encode(<<query>>)[1]
    IN  IF embed_raised \/ SearchRaises(bot.vector_store.chunks, query_emb)
        THEN [raised |-> TRUE, texts |-> <<>>]
        ELSE LET results == search(bot.vector_store.chunks, query_emb, top_k)
             IN  [raised |-> FALSE, texts |-> [i \in 1..Len(results) |-> results[i].chunk.text]]

\* what the collaborators of one answer() call do: embedder.encode raises or
\* not; client.chat.completions.create raises (an API error, a timeout) or
\* returns a message whose content is a str or None
LlmOutcomes ==
    { [embed_raised |-> TRUE, raised |-> FALSE, content |-> Nothing],
      [embed_raised |-> FALSE, raised |-> TRUE, content |-> Nothing],
      [embed_raised |-> FALSE, raised |-> FALSE, content |-> Some(<<" ", "J", "e", " ", "c", "o", "d", "e", ".", "\n">>)],
      [embed_raised |-> FALSE, raised |-> FALSE, content |-> Some(<<>>)],
      [embed_raised |-> FALSE, raised |-> FALSE, content |-> Nothing] }

\* answer() returning "" where the generation raised or gave no content
answer_swallowing(bot, query, llm) ==
    LET ctx == build_context(bot, query, DefaultTopK, llm.embed_raised)
    IN  IF ctx.raised
        THEN [raised |-> TRUE, text |-> <<>>, context |-> <<>>,
              calls |-> {"answer", "build_context"}, generations |-> 0]
        ELSE [raised |-> FALSE,
              text |-> IF llm.raised \/ llm.content = Nothing THEN <<>> ELSE Strip(llm.content[1]),
              context |-> ctx.texts,
              calls |-> {"answer", "build_context", "generate"}, generations |-> 1]

\* CareerChatbot.answer: [raised, text, context, calls, generations];
\* generations counts the calls of client.chat.completions.create;
\* content.strip() on a None content raises AttributeError
answer(bot, query, llm) ==
    LET ctx == build_context(bot, query, DefaultTopK, llm.embed_raised)
    IN  IF ctx.raised
        THEN [raised |-> TRUE, text |-> <<>>, context |-> <<>>,
              calls |-> {"answer", "build_context"}, generations |-> 0]
        ELSE [raised |-> llm.raised \/ llm.content = Nothing,
              text |-> IF llm.raised \/ llm.content = Nothing THEN <<>> ELSE Strip(llm.content[1]),
              context |-> ctx.texts,
              calls |-> {"answer", "build_context", "generate"}, generations |-> 1]

Response(status, text, context, calls, generations) ==
    [status |-> status, answer |-> text, context |-> context, calls |-> calls,
     generations |-> generations]

\* chat without the `chatbot is None` test: None.answer raises inside the try
chat_without_barrier(bot, query, llm) ==
    IF Strip(query) = <<>> THEN Response(400, <<>>, <<>>, {}, 0)
    ELSE IF bot = Nothing THEN Response(500, <<>>, <<>>, {"answer"}, 0)
    ELSE LET a == answer(bot[1], query, llm)
         IN  IF a.raised THEN Response(500, <<>>, a.context, a.calls, a.generations)
             ELSE Response(200, a.text, a.context, a.calls, a.generations)

\* chat testing `not question.query` instead of `not question.query.strip()`
chat_without_strip(bot, query, llm) ==
    IF bot = Nothing THEN Response(503, <<>>, <<>>, {}, 0)
    ELSE IF query = <<>> THEN Response(400, <<>>, <<>>, {}, 0)
    ELSE LET a == answer(bot[1], query, llm)
         IN  IF a.raised THEN Response(500, <<>>, a.context, a.calls, a.generations)
             ELSE Response(200, a.text, a.context, a.calls, a.generations)

\* the /chat handler: the HTTP status it answers with, the answer text, and
\* the calls it made
chat(bot, query, llm) ==
    IF bot = Nothing THEN Response(503, <<>>, <<>>, {}, 0)
    ELSE IF Strip(query) = <<>> THEN Response(400, <<>>, <<>>, {}, 0)
    ELSE LET a == answer(bot[1], query, llm)
         IN  IF a.raised THEN Response(500, <<>>, a.context, a.calls, a.generations)
             ELSE Response(200, a.text, a.context, a.calls, a.generations)

\* POST /chat
Chat(query, llm) ==
    /\ LET r == chat(chatbot, query, llm)
       IN  lastReq' = [kind |-> "chat", query |-> query, status |-> r.status, answer |-> r.answer,
                       context |-> r.context, calls |-> r.calls,
                       generations |-> r.generations, llm |-> llm,
                       had_vector_store |-> vector_store # Nothing,
                       had_embedder |-> embedder # Nothing,
                       had_chatbot |-> chatbot # Nothing]
    /\ UNCHANGED <<srvEnv, srvPc, vector_store, embedder, chatbot, inflight, storeVars, buildVars>>

\* GET /health
Health ==
    /\ lastReq' = [NoRequest EXCEPT !.kind = "health", !.status = 200,
                                   !.had_vector_store = vector_store # Nothing,
                                   !.had_embedder = embedder # Nothing,
                                   !.had_chatbot = chatbot # Nothing]
    /\ UNCHANGED <<srvEnv, srvPc, vector_store, embedder, chatbot, inflight, storeVars, buildVars>>

\* the vector store files the API is started on: none, a store saved from
\* some texts, a store saved with an embedding model of another dimension,
\* or a pickle of another object
StoreOfTexts(texts) == Pickled("SimpleVectorStore", [chunks |-> add_documents(<<>>, texts, Encode(texts))])
VsFiles ==
    { <<>>,
      StoreOfTexts(<< <<"[", "S", "e", "c", "t", "i", "o", "n", ":", " ", "S", "K", "I", "L", "L", "S", "]", "\n", "P", "y">>, <<"F", "o", "r", "m", "a", "t", "i", "o", "n", "\n", "M", "I", "T">>, <<"P", "r", "o", "f", "i", "l", " ", "L", "i", "n", "k", "e", "d", "I", "n", "\n", "N", "o", "m", " ", ":", " ", "A", "l", " ", "B", "o">> >>),
      StoreOfTexts(<< <<"C", "o", "m", "p", "é", "t", "e", "n", "c", "e", "s", " ", "L", "i", "n", "k", "e", "d", "I", "n", " ", ":", " ", "P", "y", ",", " ", "S", "Q", "L">> >>),
      Pickled("SimpleVectorStore",
              [chunks |-> add_documents(<<>>, << <<"P", "r", "o", "j", "e", "t", "\n", "C", "h", "a", "t", "b", "o", "t">> >>, << <<1, 0, 1>> >>)]),
      Pickled("dict", [texts |-> <<>>, embeddings |-> <<>>]) }

ChatQueries == { <<>>, <<" ", " ">>, <<"\n">>, <<"P", "y", " ", "?">>, <<" ", "Q", "u", "i", " ", "?", " ">> }

InitServe ==
    /\ srvEnv \in [vs_file : VsFiles, openai_api_key : BOOLEAN, model_ok : BOOLEAN]
    /\ srvPc = "start"
    /\ vector_store = Nothing /\ embedder = Nothing /\ chatbot = Nothing
    /\ lastReq = NoRequest
    /\ inflight = NoneInFlight
    /\ StoreIdle
    /\ BuildIdle

NextServe ==
    \/ StartupLoadVectorStore
    \/ StartupInitEmbedder
    \/ StartupInitChatbot
    \/ \E query \in ChatQueries, llm \in LlmOutcomes : Chat(query, llm)
    \/ Health

SpecServe == InitServe /\ [][NextServe]_vars

\* -------------------------------------------------------- serving: claims
Initialized(req) == req.had_vector_store /\ req.had_embedder /\ req.had_chatbot

\* C9: no query is served before initialization has completed: the chatbot
\* global is set only once the vector store and the embedder are set, the
\* chat handler invokes answer() only when all three were set on its entry,
\* and a chat request arriving before that gets a 503 response.
C9_InitBarrier ==
    /\ chatbot # Nothing => (vector_store # Nothing /\ embedder # Nothing)
    /\ (lastReq.kind = "chat" /\ lastReq.calls # {}) => Initialized(lastReq)
    /\ (lastReq.kind = "chat" /\ ~Initialized(lastReq)) => lastReq.status = 503

\* a non-empty question arrived when the store and the embedder were loaded
\* but the chatbot was not yet built
C9_Witness ==
    /\ lastReq.kind = "chat"
    /\ Strip(lastReq.query) # <<>>
    /\ lastReq.had_vector_store /\ lastReq.had_embedder /\ ~lastReq.had_chatbot
    /\ lastReq.status = 503

\* C10 as stated: every chat request whose query is empty after trimming gets
\* a 400 response, and neither build_context nor the generation is invoked.
C10_EmptyQueryGets400 ==
    (lastReq.kind = "chat" /\ Strip(lastReq.query) = <<>>)
        => (lastReq.status = 400 /\ lastReq.calls \cap {"build_context", "generate"} = {})

\* C10, amended: for every chat request whose query is empty after trimming,
\* neither build_context nor the generation is invoked, and the response is
\* 400 when the chatbot is initialized and 503 when it is not.
C10_EmptyQueryNeverAnswered ==
    (lastReq.kind = "chat" /\ Strip(lastReq.query) = <<>>)
        => /\ lastReq.calls \cap {"build_context", "generate"} = {}
           /\ lastReq.status = IF lastReq.had_chatbot THEN 400 ELSE 503

\* a whitespace-only query was refused by the initialized service
C10_Witness ==
    /\ lastReq.kind = "chat"
    /\ lastReq.query # <<>>
    /\ Strip(lastReq.query) = <<>>
    /\ lastReq.had_chatbot
    /\ lastReq.status = 400

\* a failure of the request's query-time work: the embedding raised, the
\* search raised, the generation raised or returned no content
QueryTimeFailure(req) ==
    \/ req.llm.embed_raised
    \/ SearchRaises(vector_store[1].chunks, Encode(<<req.query>>)[1])
    \/ req.llm.raised
    \/ req.llm.content = Nothing

\* a chat request that got past the barrier and the empty-query test
Answering(req) ==
    /\ req.kind = "chat"
    /\ req.had_chatbot
    /\ Strip(req.query) # <<>>

\* C11: a failure of the embedding, the search or the generation while a
\* question is answered gives the server error 500 with no answer text; a
\* success 200 carries the stripped generated text of a call that did not
\* fail; the generation is called at most once per request
C11_FailureIsServerError ==
    Answering(lastReq) =>
        /\ QueryTimeFailure(lastReq) => lastReq.status = 500 /\ lastReq.answer = <<>>
        /\ ~QueryTimeFailure(lastReq) =>
               /\ lastReq.status = 200
               /\ lastReq.answer = Strip(lastReq.llm.content[1])
               /\ lastReq.generations = 1
        /\ lastReq.generations <= 1

C11_Witness ==
    /\ Answering(lastReq)
    /\ lastReq.llm.raised
    /\ lastReq.generations = 1
    /\ lastReq.status = 500

\* ------------------------------------------- persisting and reloading
\* save_index(kb, output_dir=data/processed): `chunks` is the store it built
\* in memory, outDir the two files it wrote; vector_store.pkl is the file
\* DEFAULT_VECTOR_STORE_PATH names
SaveIndex(texts, embeddings) ==
    /\ outDir = NoOutDir
    /\ srvPc = "start"
    /\ chunks' = add_documents(<<>>, texts, embeddings)
    /\ outDir' = save_index([texts |-> texts, embeddings |-> embeddings])
    /\ srvEnv' = [srvEnv EXCEPT !.vs_file = outDir'.vs_file]
    /\ UNCHANGED <<storeOp, buildEnv, buildRun, ingestOp, srvPc, vector_store, embedder, chatbot,
                   lastReq, inflight>>

\* the knowledge bases handed to save_index: as many embeddings as texts
InitPersist ==
    /\ srvEnv \in [vs_file : {<<>>}, openai_api_key : BOOLEAN, model_ok : BOOLEAN]
    /\ srvPc = "start"
    /\ vector_store = Nothing /\ embedder = Nothing /\ chatbot = Nothing
    /\ lastReq = NoRequest
    /\ inflight = NoneInFlight
    /\ StoreIdle
    /\ BuildIdle

NextPersist ==
    \/ \E texts \in SeqsUpTo(StoreTexts, MaxRecords) :
         \E embeddings \in [1..Len(texts) -> Vecs] : SaveIndex(texts, embeddings)
    \/ StartupLoadVectorStore

SpecPersist == InitPersist /\ [][NextPersist]_vars

get_llm_provider(env) ==
    IF env.openai_api_key THEN "OpenAIProvider" ELSE "OllamaProvider"

\* on_startup reached the construction of the chatbot
ChatbotAttempted ==
    /\ vector_store # Nothing
    /\ embedder # Nothing
    /\ srvPc \in {"ready", "failed"}

\* C13: with or without an OpenAI credential the chatbot is constructed, and
\* the object it generates through is the provider get_llm_provider selects
C13_ProviderByCredential ==
    ChatbotAttempted =>
        /\ chatbot # Nothing
        /\ chatbot[1].client = get_llm_provider(srvEnv)

\* ---------------------------------------------------- chunking a CV
MaxSections == 3

\* section titles and contents as split_cv_into_sections yields them, plus a
\* content with a blank line as the fallback section can hold
ChunkTitles == { <<"A">> }
ChunkContents == { <<"P", "y">>, <<"P", "y", " ", "S", "Q", "L">>, <<"a", " ", "b", "\n", "\n", "c", " ", "d">>, <<"D", "a", "t", "a", " ", "s", "c", "i", "e", "n", "c", "e", " ", "e", "t", " ", "M", "L">> }
ChunkSections ==
    { CVSection(t, c, None) : t \in ChunkTitles, c \in ChunkContents }
MaxCharsValues == {1, 13, 16, 20, 21, 40}
MinCharsValues == {-1, 0, 19, 20, 40}

\* cv_to_text_chunks(CVDocument(raw_text, sections), max_chars, min_chars);
\* split is the chunks list when the merge loop starts
CvToTextChunks(sections, max_chars, min_chars) ==
    /\ ingestOp = NoIngestOp
    /\ ingestOp' = [NoIngestOp EXCEPT !.op = "cv_to_text_chunks", !.sections = sections,
                                      !.max_chars = max_chars, !.min_chars = min_chars,
                                      !.split = SectionChunks(sections, 1, max_chars, <<>>),
                                      !.result = cv_to_text_chunks(sections, max_chars, min_chars)]
    /\ UNCHANGED <<buildEnv, buildRun, outDir, storeVars, serveVars>>

InitChunk ==
    /\ buildEnv = NoBuildEnv /\ buildRun = NoBuildRun /\ outDir = NoOutDir
    /\ ingestOp = NoIngestOp
    /\ StoreIdle
    /\ ServeIdle

NextChunk ==
    \E sections \in SeqsUpTo(ChunkSections, MaxSections),
       max_chars \in MaxCharsValues, min_chars \in MinCharsValues :
        CvToTextChunks(sections, max_chars, min_chars)

SpecChunk == InitChunk /\ [][NextChunk]_vars

\* merged is cks cut into consecutive groups, each joined by a blank line
RECURSIVE IsGrouping(_, _)
IsGrouping(cks, merged) ==
    IF merged = <<>> THEN cks = <<>>
    ELSE \E n \in 1..Len(cks) :
           /\ merged[1] = Join(SubSeq(cks, 1, n), <<"\n", "\n">>)
           /\ IsGrouping(SubSeq(cks, n + 1, Len(cks)), Tail(merged))

\* C14: the merge pass returns no more chunks than it got, every input chunk
\* is in exactly one output chunk with order and text kept, and two adjacent
\* output chunks have lengths summing to min_chars at least
C14_MergePass ==
    ingestOp.op = "cv_to_text_chunks" =>
        /\ Len(ingestOp.result) <= Len(ingestOp.split)
        /\ IsGrouping(ingestOp.split, ingestOp.result)
        /\ \A i \in 1..(Len(ingestOp.result) - 1) :
             Len(ingestOp.result[i]) + Len(ingestOp.result[i + 1]) >= ingestOp.min_chars

C14_Witness ==
    /\ ingestOp.op = "cv_to_text_chunks"
    /\ Len(ingestOp.split) = 4
    /\ Len(ingestOp.result) = 2
    /\ ingestOp.min_chars > 0

\* the marked text of a section: its header line, then its content
BaseText(section) == <<"[", "S", "e", "c", "t", "i", "o", "n", ":", " ">> \o section.title \o <<"]">> \o <<"\n">> \o section.content

\* sub occurs in s
IsSubstring(sub, s) ==
    \E i \in 0..(Len(s) - Len(sub)) : SubSeq(s, i + 1, i + Len(sub)) = sub

\* a single section whose marked text fits in max_chars was chunked
SingleFittingSection ==
    /\ ingestOp.op = "cv_to_text_chunks"
    /\ Len(ingestOp.sections) = 1
    /\ Len(BaseText(ingestOp.sections[1])) <= ingestOp.max_chars

\* C15: a document of one section whose marked text is no longer than
\* max_chars gives exactly one chunk, which holds the section's content
\* verbatim, whatever max_chars > 0 and min_chars are
C15_SmallSectionOneChunk ==
    SingleFittingSection =>
        /\ Len(ingestOp.result) = 1
        /\ IsSubstring(ingestOp.sections[1].content, ingestOp.result[1])

C15_Witness ==
    /\ SingleFittingSection
    /\ Len(BaseText(ingestOp.sections[1])) = ingestOp.max_chars
    /\ IsSubstring(<<"\n", "\n">>, ingestOp.sections[1].content)
    /\ ingestOp.min_chars <= 0
    /\ Len(ingestOp.result) = 1

\* no whitespace-separated word of the sections' marked texts is longer
\* than max_chars
NoLongWord ==
    \A i \in 1..Len(ingestOp.sections) :
        \A w \in 1..Len(SplitWords(BaseText(ingestOp.sections[i]))) :
            Len(SplitWords(BaseText(ingestOp.sections[i]))[w]) <= ingestOp.max_chars

\* sections chunked with min_chars <= max_chars and no long word
WithinBoundsCase ==
    /\ ingestOp.op = "cv_to_text_chunks"
    /\ ingestOp.min_chars <= ingestOp.max_chars
    /\ NoLongWord

OtherNames == {"Certifications.csv", "Projects.csv"}
OtherOptions ==
    { Files(OtherNames, <<>>),
      Files(OtherNames, [n \in {"Certifications.csv"} |->
          CsvFile(<< [c \in {"Name", "Authority"} |-> IF c = "Name" THEN <<"A", "W", "S", " ", "S", "A", "A">> ELSE <<"A", "m", "a", "z", "o", "n">>] >>)]),
      Files(OtherNames, [n \in {"Projects.csv"} |->
          CsvFile(<< [c \in {"Title"} |-> <<"C", "h", "a", "t", "b", "o", "t">>], [c \in {"Title"} |-> <<"E", "T", "L">>] >>)]) }
ExportDirs == { d @@ o : d \in Dirs, o \in OtherOptions }

\* linkedin_data_to_text_chunks(load_linkedin_export(export_dir))
LinkedinDataToTextChunks(dir) ==
    /\ ingestOp = NoIngestOp
    /\ ingestOp' = [NoIngestOp EXCEPT !.op = "linkedin_data_to_text_chunks", !.data = dir,
                                      !.result = linkedin_data_to_text_chunks(load_linkedin_export(dir))]
    /\ UNCHANGED <<buildEnv, buildRun, outDir, storeVars, serveVars>>

InitExport ==
    /\ buildEnv = NoBuildEnv /\ buildRun = NoBuildRun /\ outDir = NoOutDir
    /\ ingestOp = NoIngestOp
    /\ StoreIdle
    /\ ServeIdle

NextExport == \E dir \in ExportDirs : LinkedinDataToTextChunks(dir)

SpecExport == InitExport /\ [][NextExport]_vars

\* the rows of a CSV file of the export, none when it is absent or unreadable
RowsOf(file) == IF _safe_read_csv(file) = Nothing THEN <<>> ELSE _safe_read_csv(file)[1]

\* the records of the export: the profile, the positions, the educations,
\* the certifications, the projects, and the skill list as one
RecordCount(dir) ==
    (IF load_profile(dir) # Nothing THEN 1 ELSE 0)
    + Len(load_positions(dir)) + Len(load_educations(dir))
    + Len(RowsOf(dir["Certifications.csv"])) + Len(RowsOf(dir["Projects.csv"]))
    + (IF load_skills(dir) # <<>> THEN 1 ELSE 0)

\* C16: the export gives one chunk per profile, position, education,
\* certification and project record and one chunk for a non-empty skill
\* list, so as many chunks as there are such records
C16_OneChunkPerRecord ==
    ingestOp.op = "linkedin_data_to_text_chunks" =>
        Len(ingestOp.result) = RecordCount(ingestOp.data)

\* ------------------------------------------- embeddings of any dimension
\* add_documents takes whatever rows it is given: vectors of two sizes
DimVecs == {<<1, 0>>, <<0, 1>>, <<1, 0, 1>>}

InitDims ==
    /\ chunks = <<>>
    /\ storeOp = NoStoreOp
    /\ BuildIdle
    /\ ServeIdle

NextDims ==
    \/ \E texts \in SeqsUpTo(StoreTexts, MaxBatch), embeddings \in SeqsUpTo(DimVecs, MaxBatch) :
          AddDocuments(texts, embeddings)
    \/ \E q \in Queries : Search(q, DefaultTopK)

SpecDims == InitDims /\ [][NextDims]_vars

\* C17: in every reachable state of the index all stored embeddings have the
\* same length, whatever add() calls were made
C17_OneDimensionality ==
    \A p, r \in 1..Len(chunks) : Len(chunks[p].embedding) = Len(chunks[r].embedding)

\* ------------------------------------------------ sectioning a CV
MaxLines == 4

\* lines of a CV text: two headings (one in capitals, one of
\* SECTION_PATTERNS), a blank line and two lines of content
SectionLines == { <<"S", "K", "I", "L", "L", "S">>, <<"F", "o", "r", "m", "a", "t", "i", "o", "n">>, <<" ", " ">>, <<"P", "y">>, <<"D", "a", "t", "a", " ", "e", "t", " ", "M", "L", " ">> }
RawTexts == { Join(ls, <<"\n">>) : ls \in SeqsUpTo(SectionLines, MaxLines) }

\* split_cv_into_sections(raw_text)
SplitCvIntoSections(raw_text) ==
    /\ ingestOp = NoIngestOp
    /\ ingestOp' = [NoIngestOp EXCEPT !.op = "split_cv_into_sections", !.raw_text = raw_text,
                                      !.result = split_cv_into_sections(raw_text)]
    /\ UNCHANGED <<buildEnv, buildRun, outDir, storeVars, serveVars>>

InitSections ==
    /\ buildEnv = NoBuildEnv /\ buildRun = NoBuildRun /\ outDir = NoOutDir
    /\ ingestOp = NoIngestOp
    /\ StoreIdle
    /\ ServeIdle

NextSections == \E raw_text \in RawTexts : SplitCvIntoSections(raw_text)

SpecSections == InitSections /\ [][NextSections]_vars

\* the stripped non-empty lines of the text last sectioned, and the
\* positions of its heading lines
TextLines == NonEmptyStrippedLines(ingestOp.raw_text)
Headings == {h \in 1..Len(TextLines) : _is_potential_heading(TextLines[h])}

\* the lines between opener h (a heading position, or 0 for the start of
\* the text) and the next heading
OwnedLines(h) ==
    LET next == IF \E g \in Headings : g > h
                THEN CHOOSE g \in Headings : g > h /\ \A f \in Headings : f > h => g <= f
                ELSE Len(TextLines) + 1
    IN  SubSeq(TextLines, h + 1, next - 1)

\* the section opener h stands for: titled by the heading line ("CV" for the
\* start of the text), holding the lines it owns
SectionOf(h) ==
    LET title == IF h = 0 THEN <<"C", "V">> ELSE TextLines[h]
    IN  CVSection(title, Join(OwnedLines(h), <<"\n">>), _guess_section_type(title))

\* the sections of a set of openers, in the order of the text
RECURSIVE SectionsOf(_)
SectionsOf(openers) ==
    IF openers = {} THEN <<>>
    ELSE LET h == CHOOSE x \in openers : \A y \in openers : x <= y
         IN  <<SectionOf(h)>> \o SectionsOf(openers \ {h})

\* C18 as stated: every heading line starts a section titled with it, the
\* lines before the first heading form the initial section, each section
\* holds the lines up to the next heading in order; no line, no section
C18_HeadingsPartition ==
    ingestOp.op = "split_cv_into_sections" =>
        ingestOp.result = SectionsOf(Headings \cup (IF OwnedLines(0) # <<>> THEN {0} ELSE {}))

\* C18: the sections are those of the headings, and of the start of the
\* text, that are followed by at least one non-heading line before the next
\* heading, each titled with its heading ("CV" for the start) and holding
\* those lines in order; a heading followed by no such line gives no
\* section; a text of headings only gives one section "CV" holding the
\* stripped text; a text without non-empty line gives no section
C18_SectionsWithContent ==
    ingestOp.op = "split_cv_into_sections" =>
        LET kept == {h \in Headings \cup {0} : OwnedLines(h) # <<>>}
        IN  ingestOp.result =
              IF TextLines = <<>> THEN <<>>
              ELSE IF kept = {} THEN << CVSection(<<"C", "V">>, Strip(ingestOp.raw_text), None) >>
              ELSE SectionsOf(kept)

C18_Witness ==
    /\ ingestOp.op = "split_cv_into_sections"
    /\ Len(ingestOp.result) = 2
    /\ \E h \in Headings : OwnedLines(h) = <<>>
    /\ OwnedLines(0) # <<>>

\* --------------------------------------------- requests in flight
\* the statements of chat() and answer() taken one at a time, so that
\* several requests and the startup can interleave: every schedule of the
\* server's worker threads and event loop is one of these interleavings

\* the response of request slot r, recorded as the last request handled
Respond(r, query, status, text, context, calls, generations, llm) ==
    lastReq' = [kind |-> "chat", query |-> query, status |-> status, answer |-> text,
                context |-> context, calls |-> calls, generations |-> generations,
                llm |-> llm,
                had_vector_store |-> vector_store # Nothing,
                had_embedder |-> embedder # Nothing,
                had_chatbot |-> chatbot # Nothing]

\* chat(), lines 174-184: the two refusals, or the request is accepted
ChatAccept(r, query) ==
    /\ inflight[r].pc = "idle"
    /\ IF chatbot = Nothing
       THEN Respond(r, query, 503, <<>>, <<>>, {}, 0, NoRequest.llm) /\ UNCHANGED inflight
       ELSE IF Strip(query) = <<>>
       THEN Respond(r, query, 400, <<>>, <<>>, {}, 0, NoRequest.llm) /\ UNCHANGED inflight
       ELSE /\ inflight' = [inflight EXCEPT ![r] = [pc |-> "accepted", query |-> query,
                                                     context |-> <<>>]]
            /\ UNCHANGED lastReq
    /\ UNCHANGED <<srvEnv, srvPc, vector_store, embedder, chatbot, storeVars, buildVars>>

\* ChatRetrieve building the context from the query of the lowest busy slot
ChatRetrieve_shared_query(r, embed_raised) ==
    /\ inflight[r].pc = "accepted"
    /\ LET first == CHOOSE q \in Requests : inflight[q].pc # "idle"
                        /\ \A p \in Requests : inflight[p].pc # "idle" => q <= p
           ctx == build_context(chatbot[1], inflight[first].query, DefaultTopK, embed_raised)
       IN  IF ctx.raised
           THEN /\ Respond(r, inflight[r].query, 500, <<>>, <<>>, {"answer", "build_context"}, 0,
                           [NoRequest.llm EXCEPT !.embed_raised = embed_raised])
                /\ inflight' = [inflight EXCEPT ![r] = IdleSlot]
           ELSE /\ inflight' = [inflight EXCEPT ![r].pc = "retrieved", ![r].context = ctx.texts]
                /\ UNCHANGED lastReq
    /\ UNCHANGED <<srvEnv, srvPc, vector_store, embedder, chatbot, storeVars, buildVars>>

\* answer(), line 44: context_chunks = self.build_context(query); an
\* exception of encode or search ends the request with 500
ChatRetrieve(r, embed_raised) ==
    /\ inflight[r].pc = "accepted"
    /\ LET ctx == build_context(chatbot[1], inflight[r].query, DefaultTopK, embed_raised)
       IN  IF ctx.raised
           THEN /\ Respond(r, inflight[r].query, 500, <<>>, <<>>, {"answer", "build_context"}, 0,
                           [NoRequest.llm EXCEPT !.embed_raised = embed_raised])
                /\ inflight' = [inflight EXCEPT ![r] = IdleSlot]
           ELSE /\ inflight' = [inflight EXCEPT ![r].pc = "retrieved", ![r].context = ctx.texts]
                /\ UNCHANGED lastReq
    /\ UNCHANGED <<srvEnv, srvPc, vector_store, embedder, chatbot, storeVars, buildVars>>

\* answer(), lines 62-71, and the end of chat(): the generation and the response
ChatGenerate(r, llm) ==
    /\ inflight[r].pc = "retrieved"
    /\ ~llm.embed_raised
    /\ IF llm.raised \/ llm.content = Nothing
       THEN Respond(r, inflight[r].query, 500, <<>>, inflight[r].context,
                    {"answer", "build_context", "generate"}, 1, llm)
       ELSE Respond(r, inflight[r].query, 200, Strip(llm.content[1]), inflight[r].context,
                    {"answer", "build_context", "generate"}, 1, llm)
    /\ inflight' = [inflight EXCEPT ![r] = IdleSlot]
    /\ UNCHANGED <<srvEnv, srvPc, vector_store, embedder, chatbot, storeVars, buildVars>>

\* the queries of the concurrent requests: an empty one, and two that rank
\* the records of the three-text index differently
InFlightQueries == { <<>>, <<"P", "y", " ", "?">>, <<"P", "y", "t", "h", "o", "n">> }

InitInFlight ==
    /\ srvEnv \in [vs_file : {f \in VsFiles : _load_vector_store(f).raised = "none"},
                   openai_api_key : {TRUE}, model_ok : {TRUE}]
    /\ srvPc = "start"
    /\ vector_store = Nothing /\ embedder = Nothing /\ chatbot = Nothing
    /\ lastReq = NoRequest
    /\ inflight = NoneInFlight
    /\ StoreIdle
    /\ BuildIdle

NextInFlight ==
    \/ StartupLoadVectorStore
    \/ StartupInitEmbedder
    \/ StartupInitChatbot
    \/ \E r \in Requests, query \in InFlightQueries : ChatAccept(r, query)
    \/ \E r \in Requests, embed_raised \in BOOLEAN : ChatRetrieve(r, embed_raised)
    \/ \E r \in Requests, llm \in LlmOutcomes : ChatGenerate(r, llm)
    \/ Health

SpecInFlight == InitInFlight /\ [][NextInFlight]_vars

\* the texts of the DefaultTopK records of an index that rank first for a query
ContextOf(cs, query) ==
    LET results == search(cs, Encode(<<query>>)[1], DefaultTopK)
    IN  [i \in 1..Len(results) |-> results[i].chunk.text]

\* C20: once loaded, the index is never changed by a step of any request,
\* whatever the interleaving, nor is the chatbot's reference to it; and the
\* context a request retrieved is that of its own query on that index
C20_IndexReadOnly ==
    [][ /\ vector_store # Nothing => vector_store' = vector_store
        /\ chatbot # Nothing =>
             /\ chatbot' = chatbot
             /\ chatbot[1].vector_store = vector_store[1]
        /\ \A r \in Requests :
             inflight'[r].pc = "retrieved" =>
                inflight'[r].context = ContextOf(vector_store'[1].chunks, inflight'[r].query) ]_vars

C20_Witness ==
    /\ \A r \in Requests : inflight[r].pc = "retrieved"
    /\ inflight[1].query # inflight[2].query
    /\ inflight[1].context # inflight[2].context
    /\ lastReq.kind = "health"

====
